---- MODULE Spec2Model ----
(***************************************************************************)
(* A model of the todo-app: the immutable TodoManager engine               *)
(* (src/src/models/TodoManager.ts), the SQLite persistence                 *)
(* (src/src/services/DatabaseManager.ts) and the command handlers          *)
(* (src/src/cli/commands.ts, src/unnamed/part_001).                        *)
(*                                                                         *)
(* Sequences are 1-based here and 0-based in the source: position p of a   *)
(* sequence is index p - 1 of the array, and findIndex's -1 is 0.          *)
(***************************************************************************)
EXTENDS Integers, Sequences, FiniteSets, TLC

\* JavaScript's undefined and SQL's NULL (read back as null).
Undefined == "<undefined>"
Null == "<null>"

\* Bounds of the model: the records a collection holds under Spec, under
\* PersistSpec and under AppSpec.
MaxTodos == 3
MaxStored == 2
MaxAdded == 1

\* The inputs the callers are given.
Titles == {"a", "b"}
Descriptions == {Undefined, "x"}
IdInputs == 1..(MaxTodos + 1)

VARIABLES
    todos,          \* the records of the TodoManager the caller holds
    nextId,         \* its nextId
    table,          \* whether the table todos exists in todos.db
    rows,           \* the rows of the table todos, a set keyed by id
    last,           \* the last call: operation, arguments, result
    receiverIntact, \* whether the last call left its receiver as it found it
    retryCount,     \* RunApp's retryCount
    pc,             \* RunApp: "running" in the loop, "stopped" after it,
                    \* "closed" at its end, "crashed" by an uncaught exception
    dbOpen,         \* whether the database connection is open
    shown           \* the help the last pass of the loop printed, <<>> if none

appVars == <<retryCount, pc, dbOpen, shown>>
vars == <<todos, nextId, table, rows, last, receiverIntact, retryCount, pc, dbOpen,
          shown>>

----------------------------------------------------------------------------
\* JavaScript helpers

\* a || b on strings: undefined, null and "" are falsy.
OrElse(a, b) == IF a \in {Undefined, Null, ""} THEN b ELSE a

\* { ...a, ...b }: every own key of b, also one whose value is undefined,
\* overwrites a's.
Spread(a, b) ==
    [k \in (DOMAIN a) \cup (DOMAIN b) |-> IF k \in DOMAIN b THEN b[k] ELSE a[k]]

\* array.slice(from, to) as positions from..to of a sequence.
Slice(s, from, to) == SubSeq(s, from, to)

Ok(v) == [success |-> TRUE, value |-> v]
Err(e) == [success |-> FALSE, error |-> e]

----------------------------------------------------------------------------
\* TodoManager

DefaultNextId == 1

\* Mutant: ids numbered from 0, the array index itself.
consolidateIdsFromZero(ts) == [i \in 1..Len(ts) |-> [ts[i] EXCEPT !.id = i - 1]]

consolidateIds(ts) == [i \in 1..Len(ts) |-> [ts[i] EXCEPT !.id = i]]

\* Mutant: a constructor that keeps the ids its records carry.
NewTodoManagerKeepsIds(ts, n) == [todos |-> ts, nextId |-> n]

\* constructor(todos, nextId)
NewTodoManager(ts, n) == [todos |-> consolidateIds(ts), nextId |-> n]

\* findIndex(t => t.id === id): the first position whose record has that id,
\* 0 when there is none.
findIndex(ts, id) ==
    IF \E i \in 1..Len(ts) : ts[i].id = id
    THEN CHOOSE i \in 1..Len(ts) :
            /\ ts[i].id = id
            /\ \A j \in 1..(i - 1) : ts[j].id # id
    ELSE 0

\* Every method yields what it returns (ret) and the receiver as the call
\* leaves it (this): no method assigns a field of this.

\* Mutant: addTodo that also pushes the new todo onto the receiver's array.
addTodoInPlace(m, title, description) ==
    LET newTodo == [id |-> m.nextId, title |-> title,
                    description |-> description, completed |-> FALSE]
    IN  [ret |-> NewTodoManager(Append(m.todos, newTodo), m.nextId + 1),
         this |-> [m EXCEPT !.todos = Append(m.todos, newTodo)]]

\* Mutant: addTodo that puts the new todo in front of the others.
addTodoInFront(m, title, description) ==
    LET newTodo == [id |-> m.nextId, title |-> title,
                    description |-> description, completed |-> FALSE]
    IN  [ret |-> NewTodoManager(<<newTodo>> \o m.todos, m.nextId + 1),
         this |-> m]

addTodo(m, title, description) ==
    LET newTodo == [id |-> m.nextId, title |-> title,
                    description |-> description, completed |-> FALSE]
    IN  [ret |-> NewTodoManager(Append(m.todos, newTodo), m.nextId + 1),
         this |-> m]

getTodos(m) == m.todos

\* Mutant: getTodoById that returns the first todo whatever the id.
getTodoByIdFirst(m, id) ==
    [ret |-> IF Len(m.todos) = 0 THEN Err("Todo not found") ELSE Ok(m.todos[1]),
     this |-> m]

getTodoById(m, id) ==
    LET index == findIndex(m.todos, id)
    IN  [ret |-> IF index = 0 THEN Err("Todo not found") ELSE Ok(m.todos[index]),
         this |-> m]

\* Mutant: markCompleted that builds the manager without its nextId.
markCompletedDefaultNextId(m, id) ==
    LET index == findIndex(m.todos, id)
        newTodos == Slice(m.todos, 1, index - 1)
                        \o <<[m.todos[index] EXCEPT !.completed = TRUE]>>
                        \o Slice(m.todos, index + 1, Len(m.todos))
    IN  [ret |-> IF index = 0 THEN Err("Todo not found")
                 ELSE IF m.todos[index].completed THEN Err("Todo already completed")
                 ELSE Ok(NewTodoManager(newTodos, DefaultNextId)),
         this |-> m]

\* Mutant: markCompleted without the test of the completed flag.
markCompletedUnchecked(m, id) ==
    LET index == findIndex(m.todos, id)
        newTodos == Slice(m.todos, 1, index - 1)
                        \o <<[m.todos[index] EXCEPT !.completed = TRUE]>>
                        \o Slice(m.todos, index + 1, Len(m.todos))
    IN  [ret |-> IF index = 0 THEN Err("Todo not found")
                 ELSE Ok(NewTodoManager(newTodos, m.nextId)),
         this |-> m]

markCompleted(m, id) ==
    LET index == findIndex(m.todos, id)
        todo == m.todos[index]
        updatedTodo == [todo EXCEPT !.completed = TRUE]
        newTodos == Slice(m.todos, 1, index - 1) \o <<updatedTodo>>
                        \o Slice(m.todos, index + 1, Len(m.todos))
    IN  [ret |-> IF index = 0 THEN Err("Todo not found")
                 ELSE IF todo.completed THEN Err("Todo already completed")
                 ELSE Ok(NewTodoManager(newTodos, m.nextId)),
         this |-> m]

\* Mutant: removeTodo that keeps the receiver's nextId.
removeTodoKeepsNextId(m, id) ==
    LET index == findIndex(m.todos, id)
        remainingTodos == Slice(m.todos, 1, index - 1)
                              \o Slice(m.todos, index + 1, Len(m.todos))
    IN  [ret |-> IF index = 0 THEN Err("Todo not found")
                 ELSE Ok(NewTodoManager(remainingTodos, m.nextId)),
         this |-> m]

\* Mutant: removeTodo that puts the todos after the removed one first.
removeTodoReordered(m, id) ==
    LET index == findIndex(m.todos, id)
        remainingTodos == Slice(m.todos, index + 1, Len(m.todos))
                              \o Slice(m.todos, 1, index - 1)
    IN  [ret |-> IF index = 0 THEN Err("Todo not found")
                 ELSE Ok(NewTodoManager(remainingTodos, Len(remainingTodos) + 1)),
         this |-> m]

removeTodo(m, id) ==
    LET index == findIndex(m.todos, id)
        remainingTodos == Slice(m.todos, 1, index - 1)
                              \o Slice(m.todos, index + 1, Len(m.todos))
        renumberedTodos == [i \in 1..Len(remainingTodos) |->
                                [remainingTodos[i] EXCEPT !.id = i]]
        newNextId == IF Len(renumberedTodos) > 0
                     THEN (CHOOSE x \in {renumberedTodos[i].id : i \in 1..Len(renumberedTodos)} :
                              \A i \in 1..Len(renumberedTodos) : renumberedTodos[i].id <= x) + 1
                     ELSE 1
    IN  [ret |-> IF index = 0 THEN Err("Todo not found")
                 ELSE Ok(NewTodoManager(renumberedTodos, newNextId)),
         this |-> m]

\* Mutant: updateTodo that returns the collection as it is when no todo
\* has the id.
updateTodoLenient(m, id, newData) ==
    LET index == findIndex(m.todos, id)
        updatedTodo == Spread(m.todos[index], newData)
        newTodos == Slice(m.todos, 1, index - 1) \o <<updatedTodo>>
                        \o Slice(m.todos, index + 1, Len(m.todos))
    IN  [ret |-> IF index = 0 THEN Ok(NewTodoManager(m.todos, DefaultNextId))
                 ELSE Ok(NewTodoManager(newTodos, DefaultNextId)),
         this |-> m]

\* Mutant: updateTodo that builds the todo from the new data alone, without
\* the old todo's description.
updateTodoWithoutOld(m, id, newData) ==
    LET index == findIndex(m.todos, id)
        oldTodo == m.todos[index]
        updatedTodo == Spread([oldTodo EXCEPT !.description = Undefined], newData)
        newTodos == Slice(m.todos, 1, index - 1) \o <<updatedTodo>>
                        \o Slice(m.todos, index + 1, Len(m.todos))
    IN  [ret |-> IF index = 0 THEN Err("Todo not found")
                 ELSE Ok(NewTodoManager(newTodos, DefaultNextId)),
         this |-> m]

updateTodo(m, id, newData) ==
    LET index == findIndex(m.todos, id)
        oldTodo == m.todos[index]
        updatedTodo == Spread(oldTodo, newData)
        newTodos == Slice(m.todos, 1, index - 1) \o <<updatedTodo>>
                        \o Slice(m.todos, index + 1, Len(m.todos))
    IN  [ret |-> IF index = 0 THEN Err("Todo not found")
                 ELSE Ok(NewTodoManager(newTodos, DefaultNextId)),
         this |-> m]

----------------------------------------------------------------------------
\* DatabaseManager: the store is the file todos.db, here the table todos
\* (store.table: whether it exists; store.rows: its rows, one per id).
\* A call may meet a fault of the database at one of its statements
\* (fault: "none", or the statement that throws).

\* What bun:sqlite binds for a string parameter, and for a boolean.
SqlText(v) == IF v \in {Undefined, Null} THEN Null ELSE v
SqlBoolean(b) == IF b THEN 1 ELSE 0

\* INSERT OR REPLACE INTO todos (id, ...): the row takes the place of the
\* row with its id, if there is one.
InsertOrReplace(rs, row) == {r \in rs : r.id # row.id} \cup {row}

\* The row toSqlite writes for a todo.
RowOfTodo(todo) ==
    [id |-> todo.id, title |-> SqlText(todo.title),
     description |-> SqlText(OrElse(todo.description, "")),
     completed |-> SqlBoolean(todo.completed)]

\* The todos.forEach of toSqlite: the rows after inserting ts[1..n].
RECURSIVE InsertAll(_, _, _)
InsertAll(rs, ts, n) ==
    IF n = 0 THEN rs
    ELSE InsertOrReplace(InsertAll(rs, ts, n - 1), RowOfTodo(ts[n]))

\* SELECT * FROM todos: the rows of a rowid table, read in rowid (id) order.
RECURSIVE SelectAll(_)
SelectAll(rs) ==
    IF rs = {} THEN <<>>
    ELSE LET first == CHOOSE r \in rs : \A q \in rs : r.id <= q.id
         IN  <<first>> \o SelectAll(rs \ {first})

\* The todo fromSqlite builds from a row.
TodoOfRow(row) ==
    [id |-> row.id, title |-> row.title,
     description |-> OrElse(row.description, Undefined),
     completed |-> (row.completed # 0)]

SaveFaults == {"none", "begin", "create", "insert", "commit"}
LoadFaults == {"none", "begin", "query", "commit"}

\* The Database object toSqlite returns on success.
Database == [database |-> "todos.db"]

\* A transaction: the store as it was at BEGIN (committed) and as the
\* statements run since have made it (working).
Begin(store) == [committed |-> store, working |-> store]
Commit(tx) == tx.working

\* Mutant: a ROLLBACK that leaves what the transaction has written.
RollbackKeeps(tx) == tx.working

\* ROLLBACK: the store as it was at BEGIN; the table creation and the
\* inserts of the transaction are undone.
Rollback(tx) == tx.committed

\* toSqlite(todoManager): ret is the Result, store the store it leaves.
\* The statement at which the fault is met throws, after the statements
\* before it have run (insert: the last INSERT throws, after the others);
\* the catch block runs ROLLBACK. When BEGIN itself throws there is no
\* transaction, ROLLBACK throws too and that is returned.
toSqlite(store, m, fault) ==
    LET ts == getTodos(m)
        tx == Begin(store)
        created == [tx EXCEPT !.working.table = TRUE]
        inserted(n) == [created EXCEPT !.working.rows = InsertAll(store.rows, ts, n)]
        \* no INSERT runs, and none can throw, for an empty collection
        thrownAt == IF fault = "insert" /\ Len(ts) = 0 THEN "none" ELSE fault
    IN  CASE thrownAt = "none" ->
                [ret |-> Ok(Database), store |-> Commit(inserted(Len(ts)))]
          [] thrownAt = "begin" ->
                [ret |-> Err("Rollback failed"), store |-> store]
          [] thrownAt = "create" ->
                [ret |-> Err("Database save failed"), store |-> Rollback(tx)]
          [] thrownAt = "insert" ->
                [ret |-> Err("Database save failed"),
                 store |-> Rollback(inserted(Len(ts) - 1))]
          [] thrownAt = "commit" ->
                [ret |-> Err("Database save failed"),
                 store |-> Rollback(inserted(Len(ts)))]

\* Mutant: a load that takes a missing table for an empty one.
fromSqliteMissingAsEmpty(store, fault) ==
    LET loaded == [i \in 1..Cardinality(store.rows) |->
                        TodoOfRow(SelectAll(store.rows)[i])]
    IN  IF fault = "begin" THEN [thrown |-> "cannot rollback"]
        ELSE IF fault # "none" THEN Err("Database load failed")
        ELSE Ok(NewTodoManager(loaded, DefaultNextId))

\* fromSqlite(): ret is the Result, or [thrown |-> ...] when the call raises.
\* The query throws when the table does not exist. The ROLLBACK of the catch
\* block is not guarded: when BEGIN threw, no transaction is active, ROLLBACK
\* throws and the exception leaves fromSqlite.
fromSqlite(store, fault) ==
    LET loaded == [i \in 1..Cardinality(store.rows) |->
                        TodoOfRow(SelectAll(store.rows)[i])]
    IN  IF fault = "begin" THEN [thrown |-> "cannot rollback"]
        ELSE IF fault # "none" \/ ~store.table THEN Err("Database load failed")
        ELSE Ok(NewTodoManager(loaded, DefaultNextId))

----------------------------------------------------------------------------
\* The callers of the engine. The caller holds one TodoManager, Manager, and
\* replaces it by the value a successful call returns.

Manager == [todos |-> todos, nextId |-> nextId]
Store == [table |-> table, rows |-> rows]

NoArgs == [none |-> TRUE]
Call(op, id, args, ret) ==
    [op |-> op, id |-> id, args |-> args, success |-> ret.success,
     error |-> IF ret.success THEN "" ELSE ret.error]

\* The content todos.db may have when the program starts: no table, an empty
\* table, or rows written earlier (ids need not be 1..N).
EarlierRows ==
    [table |-> TRUE,
     rows |-> { [id |-> 2, title |-> "b", description |-> Null, completed |-> 1],
                [id |-> 5, title |-> "a", description |-> "x", completed |-> 0] }]
NoTable == [table |-> FALSE, rows |-> {}]
EmptyTable == [table |-> TRUE, rows |-> {}]

\* main(): new TodoManager(), new DatabaseManager()
InitOn(stores) ==
    /\ todos = NewTodoManager(<<>>, DefaultNextId).todos
    /\ nextId = NewTodoManager(<<>>, DefaultNextId).nextId
    /\ \E store \in stores : table = store.table /\ rows = store.rows
    /\ last = Call("init", 0, NoArgs, Ok(TRUE))
    /\ receiverIntact = TRUE
    /\ retryCount = 0
    /\ pc = "running"
    /\ dbOpen = TRUE
    /\ shown = <<>>

Init == InitOn({EarlierRows})

\* The caller takes the value of a successful result and keeps its manager
\* otherwise.
Take(ret) ==
    /\ todos' = IF ret.success THEN ret.value.todos ELSE todos
    /\ nextId' = IF ret.success THEN ret.value.nextId ELSE nextId

AddTodo ==
    /\ Len(todos) < MaxTodos
    /\ \E title \in Titles, description \in Descriptions :
          \E call \in {addTodo(Manager, title, description)} :
              /\ Take(Ok(call.ret))
              /\ last' = Call("addTodo", 0,
                              [title |-> title, description |-> description],
                              Ok(call.ret))
              /\ receiverIntact' = (call.this = Manager)
    /\ UNCHANGED <<table, rows>>
    /\ UNCHANGED appVars

\* The fields an update is given, of type Omit<Partial<Todo>, 'id'>: a
\* title, a description, both, or a completed flag.
UpdateInputs ==
    { [k \in keys |-> IF k = "title" THEN "b" ELSE "x"] :
          keys \in (SUBSET {"title", "description"}) \ {{}} }
        \cup {[completed |-> FALSE]}

UpdateTodo ==
    /\ \E id \in IdInputs, newData \in UpdateInputs :
          \E call \in {updateTodo(Manager, id, newData)} :
              /\ Take(call.ret)
              /\ last' = Call("updateTodo", id, newData, call.ret)
              /\ receiverIntact' = (call.this = Manager)
    /\ UNCHANGED <<table, rows>>
    /\ UNCHANGED appVars

MarkCompleted ==
    /\ \E id \in IdInputs :
          \E call \in {markCompleted(Manager, id)} :
              /\ Take(call.ret)
              /\ last' = Call("markCompleted", id, NoArgs, call.ret)
              /\ receiverIntact' = (call.this = Manager)
    /\ UNCHANGED <<table, rows>>
    /\ UNCHANGED appVars

RemoveTodo ==
    /\ \E id \in IdInputs :
          \E call \in {removeTodo(Manager, id)} :
              /\ Take(call.ret)
              /\ last' = Call("removeTodo", id, NoArgs, call.ret)
              /\ receiverIntact' = (call.this = Manager)
    /\ UNCHANGED <<table, rows>>
    /\ UNCHANGED appVars

GetTodoById ==
    /\ \E id \in IdInputs :
          \E call \in {getTodoById(Manager, id)} :
              /\ last' = Call("getTodoById", id,
                              IF call.ret.success THEN [value |-> call.ret.value]
                              ELSE NoArgs,
                              call.ret)
              /\ receiverIntact' = (call.this = Manager)
    /\ UNCHANGED <<todos, nextId, table, rows>>
    /\ UNCHANGED appVars

\* load: the manager fromSqlite returns replaces the caller's.
Load ==
    /\ \E ret \in {fromSqlite(Store, "none")} :
          /\ Take(ret)
          /\ last' = Call("fromSqlite", 0, NoArgs, ret)
    /\ receiverIntact' = TRUE
    /\ UNCHANGED <<table, rows>>
    /\ UNCHANGED appVars

Next ==
    \/ AddTodo
    \/ UpdateTodo
    \/ MarkCompleted
    \/ RemoveTodo
    \/ Load

Spec == Init /\ [][Next]_vars

----------------------------------------------------------------------------
\* Properties of the engine, checked under Spec.

EngineMutators == {"addTodo", "updateTodo", "markCompleted", "removeTodo"}

\* C1. Dense ids: in every collection reached by add, update, complete,
\* remove and load, the record at position i has id i, so the ids in
\* sequence order are 1..N.
C1_DenseIds == \A i \in 1..Len(todos) : todos[i].id = i

\* A load has renumbered rows whose ids were 2 and 5.
C1_Witness ==
    /\ last.op = "fromSqlite" /\ last.success
    /\ Len(todos) = 2 /\ {r.id : r \in rows} = {2, 5}

\* C2. nextId >= N + 1 in every reachable collection of N records.
C2_NextIdAboveSize == nextId >= Len(todos) + 1

\* C5. A successful update leaves nextId, every record's id, the number of
\* records and their order as they were.
C5_UpdateFrame ==
    [][(last'.op = "updateTodo" /\ last'.success) =>
          /\ nextId' = nextId
          /\ Len(todos') = Len(todos)
          /\ \A i \in 1..Len(todos) :
                /\ todos'[i].id = todos[i].id
                /\ i # findIndex(todos, last'.id) => todos'[i] = todos[i]]_vars

\* The position, after the call just made, of the record that was at
\* position i before it; 0 when the call removed it.
Moved(i) ==
    IF last'.op = "removeTodo" /\ last'.success
    THEN LET k == findIndex(todos, last'.id)
         IN  IF i < k THEN i ELSE IF i = k THEN 0 ELSE i - 1
    ELSE i

\* C6. Completion is monotonic: add, update, complete and remove leave a
\* completed record completed for as long as it is in the collection,
\* wherever renumbering moves it; update changes no completed flag at all.
C6_CompletionMonotonic ==
    [][(last'.op \in EngineMutators) =>
          /\ \A i \in 1..Len(todos) :
                (todos[i].completed /\ Moved(i) # 0) => todos'[Moved(i)].completed
          /\ last'.op = "updateTodo" =>
                /\ Len(todos') = Len(todos)
                /\ \A i \in 1..Len(todos) : todos'[i].completed = todos[i].completed]_vars

\* C7. The record add creates has the id nextId of the collection add was
\* called on.
C7_AddUsesNextId ==
    [][(last'.op = "addTodo") => todos'[Len(todos')].id = nextId]_vars

\* C8. Consecutive adds assign gap-free increasing ids: add on a collection
\* of N records yields a new last record with id N + 1, and an add right
\* after an add yields the id after the one just assigned.
C8_ConsecutiveAdds ==
    [][(last'.op = "addTodo") =>
          /\ Len(todos') = Len(todos) + 1
          /\ todos'[Len(todos')].id = Len(todos) + 1
          /\ last.op = "addTodo" =>
                todos'[Len(todos')].id = todos[Len(todos)].id + 1]_vars

\* Two adds in a row on a collection whose nextId an update or a load had
\* reset.
C8_Witness ==
    /\ last.op = "addTodo"
    /\ Len(todos) = 3
    /\ nextId = 3

\* C9. Immutability: add, update, complete and remove, succeeding or
\* failing, leave the collection they are called on as it was.
C9_Immutability == (last.op \in EngineMutators) => receiverIntact

\* A removal has succeeded and one has failed.
C9_Witness ==
    /\ last.op = "removeTodo"
    /\ last.success
    /\ Len(todos) = 2

\* C10. complete(id) on a completed record returns "Todo already completed"
\* and no new collection; on a pending record it succeeds and the returned
\* collection has the record completed.
C10_CompleteOneWay ==
    [][(last'.op = "markCompleted" /\ findIndex(todos, last'.id) # 0) =>
          LET i == findIndex(todos, last'.id)
          IN  IF todos[i].completed
              THEN /\ ~last'.success
                   /\ last'.error = "Todo already completed"
                   /\ todos' = todos /\ nextId' = nextId
              ELSE /\ last'.success
                   /\ todos'[i].completed
                   /\ todos'[i].id = last'.id]_vars

\* complete has been refused on a completed record.
C10_Witness ==
    /\ last.op = "markCompleted"
    /\ last.error = "Todo already completed"
    /\ todos[last.id].completed

\* C11. remove of the record at position k of N records returns N - 1
\* records: those before k as they were, each one after k one position
\* down with the id of its new position and its title, description and
\* completed flag as they were.
C11_RemoveRenumbers ==
    [][(last'.op = "removeTodo" /\ last'.success) =>
          \E k \in 1..Len(todos) :
              /\ todos[k].id = last'.id
              /\ Len(todos') = Len(todos) - 1
              /\ \A i \in 1..(k - 1) : todos'[i] = todos[i]
              /\ \A j \in (k + 1)..Len(todos) :
                    todos'[j - 1] = [todos[j] EXCEPT !.id = j - 1]]_vars

\* The middle one of three records has been removed; the two left differ.
C11_Witness ==
    /\ last.op = "removeTodo" /\ last.success /\ last.id = 2
    /\ Len(todos) = 2
    /\ todos[1].title # todos[2].title

\* C12. update, complete and remove with an id no record carries return
\* "Todo not found" and no new collection.
C12_NotFound ==
    [][(/\ last'.op \in {"updateTodo", "markCompleted", "removeTodo"}
        /\ \A i \in 1..Len(todos) : todos[i].id # last'.id) =>
          /\ ~last'.success
          /\ last'.error = "Todo not found"
          /\ todos' = todos /\ nextId' = nextId]_vars

\* update has been refused on an empty collection.
C12_Witness ==
    /\ last.op = "updateTodo"
    /\ last.error = "Todo not found"
    /\ Len(todos) = 0

\* C20. update with a title alone changes the title of the record with the
\* id and nothing else of any record.
C20_TitleOnly ==
    [][(/\ last'.op = "updateTodo" /\ last'.success
        /\ DOMAIN last'.args = {"title"}) =>
          \E k \in 1..Len(todos) :
              /\ todos[k].id = last'.id
              /\ todos' = [todos EXCEPT ![k].title = last'.args.title]]_vars

\* A title alone has been given to a completed record with a description
\* and another title.
C20_Witness ==
    /\ last.op = "updateTodo" /\ last.success
    /\ DOMAIN last.args = {"title"}
    /\ todos[last.id].completed
    /\ todos[last.id].description = "x"
    /\ \E i \in 1..Len(todos) : todos[i].title = "a"

\* C21. A successful complete sets the completed flag of the record with
\* the id and changes nothing else: nextId, the number and order of the
\* records, their ids, titles and descriptions and the other records'
\* completed flags are as before.
C21_CompleteFrame ==
    [][(last'.op = "markCompleted" /\ last'.success) =>
          /\ nextId' = nextId
          /\ \E k \in 1..Len(todos) :
                /\ todos[k].id = last'.id
                /\ todos' = [todos EXCEPT ![k].completed = TRUE]]_vars

\* complete has succeeded on the second of three records of a collection
\* whose nextId is 3.
C21_Witness ==
    /\ last.op = "markCompleted" /\ last.success /\ last.id = 2
    /\ Len(todos) = 3 /\ nextId = 3

\* C22. add never fails: it returns the records it was called on followed
\* by a record of the given title and description, not completed, and a
\* nextId one more than before. A successful remove returns a nextId of
\* the number of records left plus 1.
C22_AddAndRemoveNextId ==
    [][/\ (last'.op = "addTodo") =>
            /\ last'.success
            /\ Len(todos') = Len(todos) + 1
            /\ SubSeq(todos', 1, Len(todos)) = todos
            /\ todos'[Len(todos')].title = last'.args.title
            /\ todos'[Len(todos')].description = last'.args.description
            /\ todos'[Len(todos')].completed = FALSE
            /\ nextId' = nextId + 1
       /\ (last'.op = "removeTodo" /\ last'.success) =>
            nextId' = Len(todos') + 1]_vars

\* The only record of a collection has been removed: none is left and
\* nextId is 1.
C22_Witness ==
    /\ last.op = "removeTodo" /\ last.success
    /\ Len(todos) = 0 /\ nextId = 1

----------------------------------------------------------------------------
\* Persistence: the engine together with save and load, on a store that
\* starts without a table or with an empty one.

PersistInit == InitOn({NoTable, EmptyTable})

StoredInputs == { <<"a", Undefined>>, <<"b", "x">> }

AddStored ==
    /\ Len(todos) < MaxStored
    /\ \E in \in StoredInputs :
          \E call \in {addTodo(Manager, in[1], in[2])} :
              /\ Take(Ok(call.ret))
              /\ last' = Call("addTodo", 0,
                              [title |-> in[1], description |-> in[2]],
                              Ok(call.ret))
              /\ receiverIntact' = (call.this = Manager)
    /\ UNCHANGED <<table, rows>>
    /\ UNCHANGED appVars

\* save: toSqlite(todoManager); the caller's manager stays.
Save ==
    /\ \E fault \in SaveFaults :
          \E call \in {toSqlite(Store, Manager, fault)} :
              /\ table' = call.store.table
              /\ rows' = call.store.rows
              /\ last' = Call("toSqlite", 0, [fault |-> fault], call.ret)
    /\ receiverIntact' = TRUE
    /\ UNCHANGED <<todos, nextId>>
    /\ UNCHANGED appVars

\* What a read method returns is an object of the receiver itself, not a
\* copy: getTodos returns this.todos, the array with its todo objects, and
\* getTodoById the todo object that this.todos.find yields. ReadonlyArray
\* and private are checked by the compiler only, and the fields of Todo
\* are not readonly.
ReturnsOwnObjects == {"getTodos", "getTodoById"}

\* The receiver after its caller has assigned completed = true to the todo
\* at position i of what the read method returned.
writeCompleted(m, method, i) ==
    IF method \in ReturnsOwnObjects
    THEN [m EXCEPT !.todos[i].completed = TRUE]
    ELSE m

\* A caller writes to a todo it was given by getTodos or by getTodoById.
WriteThroughView ==
    /\ \E method \in {"getTodos", "getTodoById"}, i \in 1..Len(todos) :
          /\ ~todos[i].completed
          /\ todos' = writeCompleted(Manager, method, i).todos
          /\ nextId' = writeCompleted(Manager, method, i).nextId
          /\ last' = Call("write", i, [method |-> method], Ok(TRUE))
    /\ receiverIntact' = receiverIntact
    /\ UNCHANGED <<table, rows>>
    /\ UNCHANGED appVars

PersistNext ==
    \/ AddStored
    \/ MarkCompleted
    \/ RemoveTodo
    \/ GetTodoById
    \/ WriteThroughView
    \/ Save
    \/ Load

PersistSpec == PersistInit /\ [][PersistNext]_vars

\* The records of a collection as the user sees them: no description and
\* an empty one are the same.
Shown(ts) ==
    [i \in 1..Len(ts) |->
        [ts[i] EXCEPT !.description = OrElse(ts[i].description, Undefined)]]

\* C3. Round trip through persistence: a successful save of a collection
\* followed by a successful load yields exactly its records, in the same
\* order, with the same titles, descriptions and completion flags,
\* whatever the store held before.
C3_SaveLoadRoundTrip ==
    [][(/\ last.op = "toSqlite" /\ last.success
        /\ last'.op = "fromSqlite" /\ last'.success) =>
          Shown(todos') = Shown(todos)]_vars

\* C13. Save is all-or-nothing: a save that fails, at whichever statement,
\* leaves the table and its rows as they were before the call.
C13_SaveAtomic ==
    [][(last'.op = "toSqlite" /\ ~last'.success) =>
          /\ table' = table
          /\ rows' = rows]_vars

\* A save of two records has failed at its second insert on a database
\* without the table.
C13_Witness ==
    /\ last.op = "toSqlite" /\ ~last.success
    /\ last.args.fault = "insert"
    /\ Len(todos) = 2
    /\ ~table

\* C23. findById returns the record at position id, whose id is id, when
\* 1 <= id <= N and "Todo not found" otherwise, and leaves the collection
\* as it was.
C23_FindById ==
    [][(last'.op = "getTodoById") =>
          /\ todos' = todos /\ nextId' = nextId
          /\ receiverIntact'
          /\ IF last'.id \in 1..Len(todos)
             THEN /\ last'.success
                  /\ last'.args.value = todos[last'.id]
                  /\ last'.args.value.id = last'.id
             ELSE /\ ~last'.success
                  /\ last'.error = "Todo not found"]_vars

\* The second of two records has been found.
C23_Witness ==
    /\ last.op = "getTodoById" /\ last.success
    /\ last.id = 2 /\ Len(todos) = 2
    /\ last.args.value.title = "b"

\* C28. What a caller writes to the sequence list() returned, or to a
\* record of it, changes nothing of the collection: a later list() or
\* findById yields the records as they were.
C28_ViewIsolated ==
    [][(last'.op = "write") =>
          /\ getTodos([todos |-> todos', nextId |-> nextId']) = getTodos(Manager)
          /\ \A id \in IdInputs :
                getTodoById([todos |-> todos', nextId |-> nextId'], id).ret
                    = getTodoById(Manager, id).ret]_vars

----------------------------------------------------------------------------
\* The command handlers (commands.ts). What the user types at the prompts
\* of one command is the record in: answer (to the confirmation), entry
\* (the id), title, description; fault is the fault the database meets.

\* String functions, on the texts the model's user types.
Trim(s) == IF s = " " THEN "" ELSE s
ToLowerCase(s) == IF s = "Y" THEN "y" ELSE s

\* parseInt(text): nan when the text is no number, else n.
ParseInt(s) ==
    IF \E n \in 0..9 : ToString(n) = s
    THEN [nan |-> FALSE, n |-> CHOOSE n \in 0..9 : ToString(n) = s]
    ELSE [nan |-> TRUE, n |-> 0]

\* Mutant: promptForTodoId that asks for the id of an empty collection too.
promptForTodoIdOfEmpty(m, entry) ==
    LET id == ParseInt(entry)
    IN  IF id.nan THEN [null |-> TRUE, id |-> 0]
        ELSE [null |-> FALSE, id |-> id.n]

\* null, or the id entered.
promptForTodoId(m, entry) ==
    IF Len(getTodos(m)) = 0 THEN [null |-> TRUE, id |-> 0]
    ELSE LET id == ParseInt(entry)
         IN  IF id.nan THEN [null |-> TRUE, id |-> 0]
             ELSE [null |-> FALSE, id |-> id.n]

\* Mutant: handleTodoCreation without the test of the title.
handleTodoCreationUnchecked(m, in) ==
    Ok(addTodo(m, in.title, OrElse(in.description, Undefined)).ret)

handleTodoCreation(m, in) ==
    IF Trim(in.title) = "" THEN Err("Title cannot be empty")
    ELSE Ok(addTodo(m, in.title, OrElse(in.description, Undefined)).ret)

handleTodoUpdate(m, in) ==
    LET id == promptForTodoId(m, in.entry)
    IN  IF id.null THEN Err("No valid ID provided")
        ELSE IF Trim(in.title) = "" /\ Trim(in.description) = ""
             THEN Err("No changes made")
        ELSE updateTodo(m, id.id,
                        [title |-> OrElse(Trim(in.title), Undefined),
                         description |-> OrElse(Trim(in.description), Undefined)]).ret

handleTodoRemove(m, in) ==
    LET id == promptForTodoId(m, in.entry)
    IN  IF id.null THEN Err("No valid ID provided")
        ELSE removeTodo(m, id.id).ret

handleCompleteTodo(m, in) ==
    LET id == promptForTodoId(m, in.entry)
    IN  IF id.null THEN Err("No valid ID provided")
        ELSE markCompleted(m, id.id).ret

handleView(m) == Ok(m)

allowedCommands ==
    { [command |-> "add", aliases |-> {"create", "+"}],
      [command |-> "view", aliases |-> {"list", "ls"}],
      [command |-> "update", aliases |-> {"edit", "modify"}],
      [command |-> "complete", aliases |-> {"done", "finish"}],
      [command |-> "remove", aliases |-> {"delete", "rm"}],
      [command |-> "help", aliases |-> {"?", "h"}],
      [command |-> "quit", aliases |-> {"exit", "e", "q"}],
      [command |-> "save", aliases |-> {"persist", "store"}],
      [command |-> "load", aliases |-> {"import", "get"}] }

\* commandMap.get(action): the command of a name or an alias, else undefined.
\* Mutant: a map of the command names alone, without the aliases.
commandMapOfNames(action) ==
    IF \E c \in allowedCommands : action = c.command
    THEN action ELSE Undefined

commandMap(action) ==
    IF \E c \in allowedCommands : action = c.command \/ action \in c.aliases
    THEN (CHOOSE c \in allowedCommands :
              action = c.command \/ action \in c.aliases).command
    ELSE Undefined

Config(handler, requiresConfirmation, modifiesState, isQuitCommand, isDatabaseCommand) ==
    [handler |-> handler, requiresConfirmation |-> requiresConfirmation,
     confirmationMessage |-> requiresConfirmation,
     modifiesState |-> modifiesState, isQuitCommand |-> isQuitCommand,
     isDatabaseCommand |-> isDatabaseCommand]

\* confirmationMessage: whether the entry has one.
commandRegistry ==
    [add |-> Config("handleTodoCreation", FALSE, TRUE, FALSE, FALSE),
     view |-> Config("handleView", FALSE, FALSE, FALSE, FALSE),
     update |-> Config("handleTodoUpdate", FALSE, TRUE, FALSE, FALSE),
     complete |-> Config("handleCompleteTodo", FALSE, TRUE, FALSE, FALSE),
     remove |-> Config("handleTodoRemove", TRUE, TRUE, FALSE, FALSE),
     save |-> Config("toSqlite", TRUE, FALSE, FALSE, TRUE),
     load |-> Config("fromSqlite", TRUE, TRUE, FALSE, TRUE),
     help |-> Config(Null, FALSE, FALSE, FALSE, FALSE),
     quit |-> Config("handleExit", FALSE, FALSE, TRUE, FALSE)]

\* text.split(/\s+/), on the texts the model's user types.
Split(s) == IF s = "help add" THEN <<"help", "add">> ELSE <<s>>

\* The help texts, by what they list.
generateGeneralHelp == <<"Available commands", DOMAIN commandRegistry>>
generateSpecificHelp(command) ==
    IF command \notin DOMAIN commandRegistry THEN <<"Unknown command", command>>
    ELSE <<"Command", command,
           (CHOOSE c \in allowedCommands : c.command = command).aliases>>

\* handleHelp(manager, lastInput): ret, and the help it prints.
handleHelp(m, lastInput) ==
    LET parts == Split(Trim(lastInput))
        specificCommand == commandMap(parts[2])
    IN  [ret |-> Ok(m),
         shown |-> IF Len(parts) > 1
                   THEN IF specificCommand # Undefined
                        THEN generateSpecificHelp(specificCommand)
                        ELSE <<"Unknown command", parts[2]>>
                   ELSE generateGeneralHelp]

----------------------------------------------------------------------------
\* The command loop (app.ts).

MAX_RETRIES == 3

\* error.includes(pattern), on the messages of the model: each is a
\* pattern itself or a database failure that contains none.
userErrorPatterns ==
    { "Unknown command", "Invalid command", "Please enter a valid command",
      "No valid ID provided", "Todo not found", "Todo already completed",
      "Title cannot be empty", "No changes made", "No todos available" }

\* Mutant: every error a system error.
classifyErrorSystem(error) == "SYSTEM_ERROR"

classifyError(error) ==
    IF \E pattern \in userErrorPatterns : error = pattern
    THEN "USER_ERROR" ELSE "SYSTEM_ERROR"

\* Mutant: any answer taken for a yes.
confirmActionAny(answer) == ToLowerCase(answer) \in {"y", "n"}

confirmAction(answer) == ToLowerCase(answer) = "y"

\* value instanceof TodoManager
IsTodoManager(value) == "todos" \in DOMAIN value

\* The help a call has printed, none when it printed no help.
Console(r) == IF "shown" \in DOMAIN r THEN r.shown ELSE <<>>

\* The handler of a registry entry, called the way executeCommand calls it:
\* ret, the store the call leaves and, for help, what it prints.
RunHandler(command, config, m, store, in) ==
    IF config.isDatabaseCommand
    THEN IF config.handler = "toSqlite"
         THEN toSqlite(store, m, in.fault)
         ELSE [ret |-> fromSqlite(store, in.fault), store |-> store]
    ELSE IF command = "help"
         THEN [ret |-> handleHelp(m, in.action).ret, store |-> store,
               shown |-> handleHelp(m, in.action).shown]
    ELSE [ret |-> CASE config.handler = "handleTodoCreation" -> handleTodoCreation(m, in)
                    [] config.handler = "handleView" -> handleView(m)
                    [] config.handler = "handleTodoUpdate" -> handleTodoUpdate(m, in)
                    [] config.handler = "handleCompleteTodo" -> handleCompleteTodo(m, in)
                    [] config.handler = "handleTodoRemove" -> handleTodoRemove(m, in),
          store |-> store]

\* Mutant: executeCommand that hands on a new TodoManager where the
\* command does not modify the state.
executeCommandFresh(command, config, m, store, in) ==
    LET continue(tm) == Ok([todoManager |-> tm, continueRunning |-> TRUE])
        r == RunHandler(command, config, m, store, in)
    IN  IF config.isQuitCommand
        THEN [ret |-> Ok([todoManager |-> m, continueRunning |-> FALSE]),
              store |-> store]
        ELSE IF /\ config.requiresConfirmation /\ config.confirmationMessage
                /\ ~confirmAction(in.answer)
             THEN [ret |-> continue(m), store |-> store]
        ELSE IF config.handler # Null
             THEN IF "thrown" \in DOMAIN r.ret THEN r
                  ELSE IF r.ret.success
                       THEN [ret |-> continue(IF config.modifiesState
                                                  /\ IsTodoManager(r.ret.value)
                                               THEN r.ret.value
                                               ELSE NewTodoManager(<<>>, DefaultNextId)),
                             store |-> r.store, shown |-> Console(r)]
                  ELSE [ret |-> Err(r.ret.error), store |-> r.store]
        ELSE [ret |-> continue(m), store |-> store]

\* executeCommand: ret is a Result of {todoManager, continueRunning}, or
\* [thrown |-> ...] when the handler raises.
executeCommand(command, config, m, store, in) ==
    LET continue(tm) == Ok([todoManager |-> tm, continueRunning |-> TRUE])
        r == RunHandler(command, config, m, store, in)
    IN  IF config.isQuitCommand
        THEN [ret |-> Ok([todoManager |-> m, continueRunning |-> FALSE]),
              store |-> store]
        ELSE IF /\ config.requiresConfirmation /\ config.confirmationMessage
                /\ ~confirmAction(in.answer)
             THEN [ret |-> continue(m), store |-> store]
        ELSE IF config.handler # Null
             THEN IF "thrown" \in DOMAIN r.ret THEN r
                  ELSE IF r.ret.success
                       THEN [ret |-> continue(IF config.modifiesState
                                                  /\ IsTodoManager(r.ret.value)
                                               THEN r.ret.value ELSE m),
                             store |-> r.store, shown |-> Console(r)]
                  ELSE [ret |-> Err(r.ret.error), store |-> r.store]
        ELSE [ret |-> continue(m), store |-> store]

commandHandler(command, m, store, in) ==
    IF command \notin DOMAIN commandRegistry
    THEN [ret |-> Err("Unknown command"), store |-> store]
    ELSE executeCommand(command, commandRegistry[command], m, store, in)

\* What the loop keeps of a result.

\* Mutant: the records held before kept in front of those of the result.
todoManagerAfterMerged(m, result) ==
    IF result.success
    THEN NewTodoManager(m.todos \o result.value.todoManager.todos,
                        result.value.todoManager.nextId)
    ELSE m

\* Mutant: the todoManager dropped when the command failed.
todoManagerAfterLost(m, result) ==
    IF result.success THEN result.value.todoManager
    ELSE NewTodoManager(<<>>, DefaultNextId)

\* todoManager = newTodoManager, on success only
todoManagerAfter(m, result) ==
    IF result.success THEN result.value.todoManager ELSE m

\* Mutant: a retry counter that success does not reset.
retryCountAfterKept(count, result) ==
    IF result.success THEN count
    ELSE IF classifyError(result.error) = "USER_ERROR" THEN count
    ELSE count + 1

\* retryCount = 0 on success, retryCount++ on a system error
retryCountAfter(count, result) ==
    IF result.success THEN 0
    ELSE IF classifyError(result.error) = "USER_ERROR" THEN count
    ELSE count + 1

\* What the user may type.
Actions ==
    UNION { {c.command} \cup c.aliases : c \in allowedCommands }
        \cup {"", " ", "help add", "undo"}
Answers == {"y", "Y", "n"}
Entries == {"abc"} \cup {ToString(n) : n \in 1..(MaxAdded + 1)}
AddTitles == {"", " ", "a"}
UpdateTitles == {"", " ", "b"}
TypedDescriptions == {"", "x"}
NoInput == [action |-> "", answer |-> "n", entry |-> "", title |-> "",
            description |-> "", fault |-> "none"]

\* The commands the user's texts select (undefined for a text that is none).
Typed == { commandMap(Trim(action)) : action \in Actions \ {"", " "} }

AppInit == InitOn({NoTable, EmptyTable})

\* Mutant: the bound reached, not exceeded.
retriesReached(count) == count >= MAX_RETRIES

\* retryCount > MAX_RETRIES, tested after retryCount++
retriesExceeded(count) == count > MAX_RETRIES

\* One pass of RunApp's loop in which the text typed is empty.
EnterNothing ==
    /\ pc = "running"
    /\ "" \in { Trim(action) : action \in Actions }
    /\ last' = Call("", 0, NoInput, Ok(TRUE))
    /\ receiverIntact' = TRUE
    /\ shown' = <<>>
    /\ UNCHANGED <<todos, nextId, table, rows, retryCount, pc, dbOpen>>

\* One pass in which the text typed is no command and no alias.
EnterInvalid ==
    /\ pc = "running"
    /\ Undefined \in Typed
    /\ last' = Call("invalid", 0, NoInput, Ok(TRUE))
    /\ receiverIntact' = TRUE
    /\ shown' = <<>>
    /\ UNCHANGED <<todos, nextId, table, rows, retryCount, pc, dbOpen>>

\* What RunApp does with the result r of commandHandler: the Result it
\* handles (an exception as its error), and its todoManager, retryCount
\* and isRunning, the store and the help printed after the pass.
Outcome(r) ==
    IF "thrown" \in DOMAIN r.ret
    THEN [result |-> Err(r.ret.thrown), pc |-> "crashed",
          todos |-> todos, nextId |-> nextId, table |-> table, rows |-> rows,
          retryCount |-> retryCount, shown |-> <<>>]
    ELSE [result |-> r.ret,
          pc |-> IF r.ret.success
                 THEN IF r.ret.value.continueRunning THEN "running" ELSE "stopped"
                 ELSE IF classifyError(r.ret.error) = "USER_ERROR" THEN pc
                 ELSE IF retriesExceeded(retryCount + 1)
                      THEN "stopped" ELSE "running",
          todos |-> todoManagerAfter(Manager, r.ret).todos,
          nextId |-> todoManagerAfter(Manager, r.ret).nextId,
          table |-> r.store.table, rows |-> r.store.rows,
          retryCount |-> retryCountAfter(retryCount, r.ret),
          shown |-> Console(r)]

\* The rest of a pass once the command is known: commandHandler and what
\* RunApp does with its result.
Run(command, in) ==
    \E r \in {commandHandler(command, Manager, Store, in)} :
        \E o \in {Outcome(r)} :
            /\ last' = Call(command, ParseInt(in.entry).n, in, o.result)
            /\ pc' = o.pc
            /\ todos' = o.todos
            /\ nextId' = o.nextId
            /\ table' = o.table
            /\ rows' = o.rows
            /\ retryCount' = o.retryCount
            /\ shown' = o.shown
            /\ dbOpen' = dbOpen

\* One pass in which the text typed is a name or an alias of command, with
\* the answers the command's prompts are given.
Enter(command, inputs) ==
    /\ command \in Typed
    /\ \E in \in inputs : Run(command, [in EXCEPT !.action = command])
    /\ receiverIntact' = TRUE

\* A title is typed while the collection has room for a record, an empty
\* one at any time.
EnterAdd ==
    /\ pc = "running"
    /\ Enter("add", { [NoInput EXCEPT !.title = t, !.description = d] :
                        t \in { u \in AddTitles :
                                  Trim(u) = "" \/ Len(todos) < MaxAdded },
                        d \in TypedDescriptions })

EnterUpdate ==
    /\ pc = "running"
    /\ Enter("update",
             { [NoInput EXCEPT !.entry = e, !.title = t, !.description = d] :
                 e \in Entries, t \in UpdateTitles, d \in TypedDescriptions })

EnterComplete ==
    /\ pc = "running"
    /\ Enter("complete", { [NoInput EXCEPT !.entry = e] : e \in Entries })

EnterRemove ==
    /\ pc = "running"
    /\ Enter("remove", { [NoInput EXCEPT !.answer = a, !.entry = e] :
                           a \in Answers, e \in Entries })

EnterSave ==
    /\ pc = "running"
    /\ Enter("save", { [NoInput EXCEPT !.answer = a, !.fault = f] :
                         a \in Answers, f \in SaveFaults })

EnterLoad ==
    /\ pc = "running"
    /\ Enter("load", { [NoInput EXCEPT !.answer = a, !.fault = f] :
                         a \in Answers, f \in LoadFaults })

EnterView ==
    /\ pc = "running"
    /\ Enter("view", {NoInput})

EnterHelp ==
    /\ pc = "running"
    /\ Enter("help", {NoInput})

EnterQuit ==
    /\ pc = "running"
    /\ Enter("quit", {NoInput})

\* After the loop: dbManager.closeDatabase().
Shutdown ==
    /\ pc = "stopped"
    /\ pc' = "closed"
    /\ dbOpen' = FALSE
    /\ last' = Call("closeDatabase", 0, NoInput, Ok(TRUE))
    /\ UNCHANGED <<todos, nextId, table, rows, retryCount, receiverIntact, shown>>

AppNext ==
    \/ EnterNothing
    \/ EnterInvalid
    \/ EnterAdd
    \/ EnterView
    \/ EnterUpdate
    \/ EnterComplete
    \/ EnterRemove
    \/ EnterSave
    \/ EnterLoad
    \/ EnterHelp
    \/ EnterQuit
    \/ Shutdown

AppSpec == AppInit /\ [][AppNext]_vars

\* The failures of the database, as the loop is given them.
SystemErrors == {"Database save failed", "Database load failed", "Rollback failed"}

\* A pass of the loop that ends with a system error.
SystemErrorPass ==
    /\ pc = "running" /\ pc' # "crashed"
    /\ ~last'.success /\ last'.error \in SystemErrors

\* C15 as stated: the third system error with no successful command since
\* the last success ends the session, and no error before it does.
C15_ThirdErrorStops ==
    [][SystemErrorPass => (pc' = "stopped" <=> retryCount = MAX_RETRIES - 1)]_vars

\* C15, amended. A system error is retried MAX_RETRIES times: the session
\* ends at the system error that follows MAX_RETRIES system errors with no
\* successful command in between, the fourth, and at no error before it.
\* retryCount is the number of those errors: a successful command sets it
\* to 0, a system error adds 1, a user error leaves it.
C15_FourthErrorStops ==
    [][/\ SystemErrorPass =>
            /\ retryCount' = retryCount + 1
            /\ pc' = "stopped" <=> retryCount = MAX_RETRIES
       /\ (pc = "running" /\ pc' = "stopped") =>
            \/ last'.op = "quit"
            \/ SystemErrorPass /\ retryCount = MAX_RETRIES
       /\ (pc = "running" /\ last'.success /\ last'.op \in DOMAIN commandRegistry) =>
            retryCount' = 0
       /\ (pc = "running" /\ pc' # "crashed" /\ ~last'.success
              /\ last'.error \notin SystemErrors) =>
            retryCount' = retryCount]_vars

\* The session has ended at the fourth system error in a row.
C15_Witness ==
    /\ pc = "stopped"
    /\ retryCount = MAX_RETRIES + 1
    /\ ~last.success /\ last.error \in SystemErrors

\* The errors of the user: what the engine and the handlers refuse.
UserErrors ==
    { "Todo not found", "Todo already completed", "Title cannot be empty",
      "No changes made", "No valid ID provided" }

\* C16. A command that ends with a user error leaves the retry counter as
\* it was and the session running, whatever came before it.
C16_UserErrorsNotCounted ==
    [][(pc = "running" /\ ~last'.success /\ last'.error \in UserErrors) =>
          /\ retryCount' = retryCount
          /\ pc' = "running"]_vars

\* complete has been refused on a completed record after MAX_RETRIES
\* system errors, and the session goes on.
C16_Witness ==
    /\ last.error = "Todo already completed"
    /\ retryCount = MAX_RETRIES
    /\ pc = "running"

\* C17. remove, save and load whose confirmation is declined leave the
\* collection and the store as they were and call no handler: the pass
\* succeeds whatever id was to be typed and whatever fault the database
\* would have met.
C17_DeclinedChangesNothing ==
    [][(/\ pc = "running"
        /\ last'.op \in {"remove", "save", "load"}
        /\ ToLowerCase(last'.args.answer) # "y") =>
          /\ todos' = todos /\ nextId' = nextId
          /\ table' = table /\ rows' = rows
          /\ last'.success
          /\ pc' = "running"]_vars

\* A load has been declined with a record in the collection, none in the
\* store and a database whose BEGIN would have thrown.
C17_Witness ==
    /\ last.op = "load" /\ last.args.answer = "n" /\ last.args.fault = "begin"
    /\ Len(todos) = 1 /\ rows = {}
    /\ pc = "running"

\* C18. add with an empty or blank title and update with title and
\* description both blank return a user error and leave the collection as
\* it was.
C18_ValidatedBeforeEngine ==
    [][(/\ pc = "running"
        /\ \/ last'.op = "add" /\ Trim(last'.args.title) = ""
           \/ /\ last'.op = "update"
              /\ Trim(last'.args.title) = ""
              /\ Trim(last'.args.description) = "") =>
          /\ ~last'.success
          /\ last'.error \in {"Title cannot be empty", "No changes made",
                               "No valid ID provided"}
          /\ todos' = todos /\ nextId' = nextId
          /\ retryCount' = retryCount /\ pc' = "running"]_vars

\* update has been refused for a blank title and an empty description on
\* a collection that has the record.
C18_Witness ==
    /\ last.op = "update" /\ last.error = "No changes made"
    /\ last.args.title = " "
    /\ Len(todos) = 1 /\ last.id = 1

\* C19. Every record of every collection the commands reach has a title
\* that is a non-empty string.
C19_TitleNonEmpty ==
    \A i \in 1..Len(todos) : todos[i].title \notin {Undefined, Null, ""}

----------------------------------------------------------------------------
\* The command loop with the text typed at "Enter action: " kept in
\* last.args.action, for a user who answers every other prompt in one
\* way: yes, id 1, a title (none for a record the collection has no room
\* for) and no description, on a database that meets no fault.

TypedInput(command) ==
    [NoInput EXCEPT !.answer = "y", !.entry = "1",
                    !.title = IF command # "add" THEN "b"
                              ELSE IF Len(todos) < MaxAdded THEN "a" ELSE ""]

\* One pass of RunApp's loop.
Type ==
    /\ pc = "running"
    /\ \E typed \in Actions :
          LET action == Trim(typed)
              command == commandMap(action)
          IN  IF action = "" \/ command = Undefined
              THEN /\ last' = Call(IF action = "" THEN "" ELSE "invalid", 0,
                                    [NoInput EXCEPT !.action = typed], Ok(TRUE))
                   /\ shown' = <<>>
                   /\ UNCHANGED <<todos, nextId, table, rows, retryCount, pc, dbOpen>>
              ELSE Run(command, [TypedInput(command) EXCEPT !.action = action])
    /\ receiverIntact' = TRUE

TypedNext ==
    \/ Type
    \/ Shutdown

TypedSpec == AppInit /\ [][TypedNext]_vars

\* C25. Entering help, ? or h shows the list of the available commands
\* and leaves the collection as it was.
C25_HelpShown ==
    [][(pc = "running" /\ last'.op = "help") =>
          /\ last'.success
          /\ shown' = generateGeneralHelp
          /\ todos' = todos /\ nextId' = nextId]_vars

\* C26. Entering help add is accepted as the help command and shows the
\* help of add.
C26_HelpForCommand ==
    ("action" \in DOMAIN last.args /\ last.args.action = "help add") =>
        /\ last.op = "help"
        /\ shown = generateSpecificHelp("add")

\* The documented command of a text: the one of which it is the name or
\* an alias.
Documented(text) ==
    { c.command : c \in { d \in allowedCommands :
                              text = d.command \/ text \in d.aliases } }

\* C27. Entering an alias has the effect of entering the name of its
\* command: the same command runs, with the same result and the same
\* collection, store, retry counter, help and end of the loop after it.
\* A text that is neither a name nor an alias runs no command and changes
\* nothing.
C27_AliasesDispatch ==
    [][(pc = "running" /\ Trim(last'.args.action) # "") =>
          LET text == Trim(last'.args.action)
          IN  IF Documented(text) = {}
              THEN /\ last'.op = "invalid"
                   /\ UNCHANGED <<todos, nextId, table, rows, retryCount, pc>>
              ELSE \E name \in Documented(text) :
                     LET o == Outcome(commandHandler(name, Manager, Store,
                                  [last'.args EXCEPT !.action = name]))
                     IN  /\ last'.op = name
                         /\ last'.success = o.result.success
                         /\ todos' = o.todos /\ nextId' = o.nextId
                         /\ table' = o.table /\ rows' = o.rows
                         /\ retryCount' = o.retryCount
                         /\ pc' = o.pc /\ shown' = o.shown]_vars

\* rm has removed the record of the collection, after persist had saved
\* it.
C27_Witness ==
    /\ last.op = "remove" /\ last.success
    /\ last.args.action = "rm"
    /\ Len(todos) = 0 /\ Cardinality(rows) = 1

\* C24. A confirmed load that succeeds replaces the collection by the rows
\* of the store: as many records as rows, in the order of the rows, each
\* with the id of its position and the title, description and completed
\* flag of its row; nothing of the collection held before is kept.
C24_LoadReplaces ==
    [][(/\ pc = "running"
        /\ last'.op = "load" /\ last'.success
        /\ ToLowerCase(last'.args.answer) = "y") =>
          LET stored == SelectAll(rows)
          IN  /\ Len(todos') = Cardinality(rows)
              /\ \A i \in 1..Len(todos') :
                    /\ todos'[i].id = i
                    /\ todos'[i].title = stored[i].title
                    /\ OrElse(todos'[i].description, "") =
                           OrElse(stored[i].description, "")
                    /\ todos'[i].completed = (stored[i].completed = 1)]_vars

\* A load has brought back the saved record, completed, with title a.
C24_Witness ==
    /\ last.op = "load" /\ last.success /\ last.args.answer = "y"
    /\ Len(todos) = 1
    /\ todos[1].title = "a" /\ todos[1].completed

\* C29. A command that returns an error, of the user or of the system,
\* leaves the loop with the collection it held before the command.
C29_ErrorKeepsCollection ==
    [][(pc = "running" /\ ~last'.success) =>
          /\ todos' = todos
          /\ nextId' = nextId]_vars

\* A load has failed while the collection held a record.
C29_Witness ==
    /\ last.op = "load" /\ ~last.success
    /\ last.error = "Database load failed"
    /\ Len(todos) = 1

\* C30. Every command that returns success sets the retry counter to 0,
\* view, help, quit and a declined confirmation included, and nothing
\* else does; a user error leaves it as it is; system errors end the
\* session only with the counter above MAX_RETRIES.
C30_RetryCounterReset ==
    [][(pc = "running" /\ pc' # "crashed") =>
          /\ (last'.success /\ last'.op \in DOMAIN commandRegistry) =>
                retryCount' = 0
          /\ (retryCount' = 0 /\ retryCount # 0) =>
                (last'.success /\ last'.op \in DOMAIN commandRegistry)
          /\ (~last'.success /\ last'.error \in UserErrors) =>
                retryCount' = retryCount
          /\ (pc' = "stopped" /\ last'.op # "quit") =>
                retryCount' > MAX_RETRIES]_vars

\* help has succeeded after system errors, and the counter is 0 while the
\* store still has no table.
C30_Witness ==
    /\ last.op = "help" /\ last.success
    /\ retryCount = 0
    /\ ~table /\ Len(todos) = 1

\* C14. A failure of save or load at any step is returned as an error
\* result: the command loop is never left by an exception of theirs.
C14_NoException ==
    /\ pc # "crashed"
    /\ (/\ last.op \in {"save", "load"}
        /\ confirmAction(last.args.answer)
        /\ last.args.fault \notin {"none", "insert"}) => ~last.success

\* C4. Through the update command a field left blank keeps its value: with
\* a blank title and a description, or a title and a blank description,
\* the record keeps the blank field's value.
C4_BlankKeepsCurrent ==
    [][(last'.op = "update" /\ last'.success) =>
          LET i == last'.id
          IN  /\ Trim(last'.args.title) = "" => todos'[i].title = todos[i].title
              /\ Trim(last'.args.description) = "" =>
                    todos'[i].description = todos[i].description]_vars

----------------------------------------------------------------------------
\* The end of the session.

\* C31. However the command loop is left, the database is closed exactly
\* once, after the last command has run: the program does not come to its
\* end with the database open, closeDatabase is called on the open
\* database at the end of the loop only, and no save or load runs on the
\* closed database.
C31_ClosedOnceAtExit ==
    /\ [](pc \notin {"running", "stopped"} => ~dbOpen)
    /\ [][(last'.op = "closeDatabase" /\ last' # last) =>
              (pc = "stopped" /\ dbOpen /\ ~dbOpen')]_vars
    /\ [][dbOpen' # dbOpen => last'.op = "closeDatabase"]_vars
    /\ [][~dbOpen => last'.op \notin {"save", "load"}]_vars

C34_ReadOnlyCommands ==
    [][(pc = "running" /\ last'.op \in {"save", "view", "help"}) =>
          /\ todos' = todos
          /\ nextId' = nextId]_vars

\* A save has succeeded with a record in the collection and nextId 2.
C34_Witness ==
    /\ last.op = "save" /\ last.success /\ last.args.answer = "y"
    /\ Cardinality(rows) = 1
    /\ Len(todos) = 1 /\ nextId = 2

----------------------------------------------------------------------------
\* Add and remove, checked under Spec.

\* C35. add followed by remove of the id just assigned gives the records
\* back: on every reachable collection of N records, for every title and
\* description, removeTodo(N + 1) of the result of addTodo succeeds and
\* returns the records of the collection, in their order.
C35_AddRemoveRoundTrip ==
    \A title \in Titles, description \in Descriptions :
        LET added == addTodo(Manager, title, description).ret
            removed == removeTodo(added, Len(todos) + 1).ret
        IN  /\ added.todos[Len(added.todos)].id = Len(todos) + 1
            /\ removed.success
            /\ getTodos(removed.value) = todos

\* The record an add had appended to two records, one of them completed,
\* has been removed again.
C35_Witness ==
    /\ last.op = "removeTodo" /\ last.success
    /\ last.id = Len(todos) + 1
    /\ Len(todos) = 2
    /\ todos[1].completed /\ ~todos[2].completed

====
